---- MODULE Spec2Model ----
(***************************************************************************)
(* scripts/build_thumbbar_icons.py: one run of main() as a state machine.  *)
(* Every filesystem query, library call and print is one step; an          *)
(* exception raised by a step is held in exc until main's except clause    *)
(* handles it.                                                             *)
(***************************************************************************)
EXTENDS Integers, Sequences, FiniteSets, TLC

VARIABLES
    rawVariants,  \* args.variants, a string (sequence of characters)
    installed,    \* the importable modules among resvg_py and PIL
    inDirs,       \* variant folders present under the input root
    inFiles,      \* .svg files present under the input root
    outDirs,      \* folders present under the output root
    outFiles,     \* files present under the output root: path -> content
    pc,           \* the statement main() is at
    variants,     \* main: variants
    vi,           \* main: position of the for loop over variants (1-based)
    ni,           \* build_variant: position of the loop over ICON_NAMES
    si,           \* build_variant: position of the loop over ICON_SIZES
    svg_content,  \* build_variant: svg_content, <<>> before the first read
    images,       \* build_variant: images
    exc,          \* the exception in flight or handled, <<>> when none
    stdout,       \* lines printed to sys.stdout
    stderr,       \* lines printed to sys.stderr
    exitCode,     \* <<c>> once main() has returned c
    log,          \* history: the I/O operations of this run, in order
    saved,        \* history: the bundles handed to Image.save in this run
    written,      \* history: loop positions whose save completed in this run
    out0,         \* history: outFiles when this run started
    runNo,        \* history: 1 for the first run, 2 for a re-run, ...
    prev          \* history: <<the previous run's exit code and final outFiles>>

vars == <<rawVariants, installed, inDirs, inFiles, outDirs, outFiles, pc,
          variants, vi, ni, si, svg_content, images, exc, stdout, stderr,
          exitCode, log, saved, written, out0, runNo, prev>>

(***************************************************************************)
(* Bounds of the model.                                                    *)
(***************************************************************************)
MaxRawLen == 3    \* every --variants string up to this length is tried
MaxMissing == 1   \* input paths missing from the input tree
MaxRuns == 2      \* invocations of main() on the same trees

(***************************************************************************)
(* Constants of the script.                                                *)
(***************************************************************************)
ICON_NAMES == <<"previous", "play", "pause", "next">>
ICON_SIZES == << <<16, 16>>, <<20, 20>>, <<24, 24>>, <<32, 32>> >>

(***************************************************************************)
(* Strings are sequences of one-character strings.                         *)
(***************************************************************************)
Chars == {"d", "l", ",", " "}
Whitespace == {" "}

RECURSIVE StringsOfLen(_)
StringsOfLen(n) ==
    IF n = 0 THEN {<<>>}
    ELSE {Append(s, c) : s \in StringsOfLen(n - 1), c \in Chars}

\* the --variants values tried: every short string, and longer lists
RawVariantsInputs ==
    UNION {StringsOfLen(n) : n \in 0..MaxRawLen}
    \cup { <<" ", "d", " ", ",", ",", "l", " ">>,
           <<"d", ",", "l", ",", "d">> }

\* str.split(sep): the fields between separators, empty fields kept
RECURSIVE Split(_, _)
Split(s, sep) ==
    IF \A i \in 1..Len(s) : s[i] # sep THEN <<s>>
    ELSE LET i == CHOOSE j \in 1..Len(s) :
                      s[j] = sep /\ \A k \in 1..(j - 1) : s[k] # sep
         IN  <<SubSeq(s, 1, i - 1)>> \o Split(SubSeq(s, i + 1, Len(s)), sep)

\* str.strip(): leading and trailing whitespace removed
RECURSIVE Strip(_)
Strip(s) ==
    IF s = <<>> THEN s
    ELSE IF Head(s) \in Whitespace THEN Strip(Tail(s))
    ELSE IF s[Len(s)] \in Whitespace THEN Strip(SubSeq(s, 1, Len(s) - 1))
    ELSE s

RECURSIVE StrippedNonEmpty(_)
StrippedNonEmpty(fields) ==
    IF fields = <<>> THEN <<>>
    ELSE IF Strip(Head(fields)) # <<>>
         THEN <<Strip(Head(fields))>> \o StrippedNonEmpty(Tail(fields))
         ELSE StrippedNonEmpty(Tail(fields))

RECURSIVE StrippedAll(_)
StrippedAll(fields) ==
    IF fields = <<>> THEN <<>>
    ELSE <<Strip(Head(fields))>> \o StrippedAll(Tail(fields))

\* mutant: the comprehension without its "if v.strip()" filter
ParseVariantsKeepEmpty(raw) == StrippedAll(Split(raw, ","))

\* [v.strip() for v in args.variants.split(",") if v.strip()]
ParseVariants(raw) == StrippedNonEmpty(Split(raw, ","))

Range(s) == {s[i] : i \in 1..Len(s)}

(***************************************************************************)
(* Paths.  input_root / variant and variant_input / f"{icon_name}.svg".    *)
(***************************************************************************)
Path(root, variant, file) == [root |-> root, variant |-> variant, file |-> file]
NoPath == Path("", <<>>, <<>>)
VariantInput(v) == Path("input", v, <<>>)
SvgPath(v, name) == Path("input", v, <<name, "svg">>)
VariantOutput(v) == Path("output", v, <<>>)
IcoPath(v, name) == Path("output", v, <<name, "ico">>)

\* a folder of the output root that no --variants value tried names
OtherVariant == <<"o">>

\* the text of the file at p: distinct files hold distinct text
FileText(p) == [textOf |-> p]

(***************************************************************************)
(* Exceptions and printed lines.  The text of an error raised inside a     *)
(* library (mkdir, read_text, svg_to_bytes, save) is the library's; here   *)
(* it is the name of the call.                                             *)
(***************************************************************************)
Exception(type, text, path) == [type |-> type, text |-> text, path |-> path]
Line(prefix, text, path) == [prefix |-> prefix, text |-> text, path |-> path]

\* an I/O operation of the run, at loop positions (v, n, s)
Event(op, v, n, s) == [op |-> op, v |-> v, n |-> n, s |-> s]

(***************************************************************************)
(* render_svg_at_size: resvg_py.svg_to_bytes at the requested size,        *)
(* decoded and converted to RGBA.                                          *)
(***************************************************************************)
render_svg_at_size(content, width, height) ==
    [src |-> content, size |-> <<width, height>>, mode |-> "RGBA"]

(***************************************************************************)
(* Image.save(format="ICO", sizes=..., append_images=...) as the imaging   *)
(* library the script calls defines it: the requested sizes are taken in   *)
(* sorted order without duplicates; a size wider or taller than the image  *)
(* save() is called on, or above 256, is ignored; for a size that is kept  *)
(* the first provided image of exactly that size is the frame, and failing *)
(* one the base image scaled down to it.                                   *)
(***************************************************************************)
SizeLE(a, b) == a[1] < b[1] \/ (a[1] = b[1] /\ a[2] <= b[2])

RECURSIVE SortedSizes(_)
SortedSizes(S) ==
    IF S = {} THEN <<>>
    ELSE LET m == CHOOSE x \in S : \A y \in S : SizeLE(x, y)
         IN  <<m>> \o SortedSizes(S \ {m})

RECURSIVE IcoFramesFor(_, _, _)
IcoFramesFor(im, provided_ims, todo) ==
    IF todo = <<>> THEN <<>>
    ELSE LET size == Head(todo)
             rest == IcoFramesFor(im, provided_ims, Tail(todo))
             hits == {i \in 1..Len(provided_ims) : provided_ims[i].size = size}
         IN  IF size[1] > im.size[1] \/ size[2] > im.size[2]
                \/ size[1] > 256 \/ size[2] > 256
             THEN rest
             ELSE IF hits # {}
             THEN <<provided_ims[CHOOSE i \in hits : \A j \in hits : i <= j]>>
                  \o rest
             ELSE <<[src |-> im.src, size |-> size, mode |-> im.mode]>> \o rest

IcoFrames(im, sizes, append_images) ==
    IcoFramesFor(im, <<im>> \o append_images, SortedSizes(Range(sizes)))

IcoFile(frames) == [format |-> "ICO", frames |-> frames]
StaleFile == [format |-> "stale", frames |-> <<>>]
PartialFile == [format |-> "truncated", frames |-> <<>>]

\* mutant: an output file that already exists is left as it is
WriteFileSkipExisting(files, p, content) ==
    IF p \in DOMAIN files THEN files
    ELSE [q \in DOMAIN files \cup {p} |-> IF q = p THEN content ELSE files[q]]

\* writing content at path p of the output tree: an existing file is replaced
WriteFile(files, p, content) ==
    [q \in DOMAIN files \cup {p} |-> IF q = p THEN content ELSE files[q]]

(***************************************************************************)
(* The initial state: the arguments and the two trees main() starts from.  *)
(***************************************************************************)
RequestedNames(raw) == Range(ParseVariants(raw))

InputPaths(names) ==
    {VariantInput(v) : v \in names}
    \cup {SvgPath(v, ICON_NAMES[k]) : v \in names, k \in 1..Len(ICON_NAMES)}

StaleCandidates == {IcoPath(<<"d">>, "play"), IcoPath(OtherVariant, "play")}

Init ==
    /\ rawVariants \in RawVariantsInputs
    /\ installed \in SUBSET {"resvg_py", "PIL"}
    /\ \E missing \in SUBSET InputPaths(RequestedNames(rawVariants)) :
         /\ Cardinality(missing) <= MaxMissing
         /\ inDirs = {VariantInput(v) : v \in RequestedNames(rawVariants)}
                     \ missing
         /\ inFiles = {p \in InputPaths(RequestedNames(rawVariants)) \ missing :
                         /\ p.file # <<>>
                         /\ VariantInput(p.variant) \in inDirs}
    /\ \E pre \in SUBSET StaleCandidates :
         /\ outFiles = [p \in pre |-> StaleFile]
         /\ outDirs = {VariantOutput(p.variant) : p \in pre}
    /\ pc = "main"
    /\ variants = <<>>
    /\ vi = 0
    /\ ni = 0
    /\ si = 0
    /\ svg_content = <<>>
    /\ images = <<>>
    /\ exc = <<>>
    /\ stdout = <<>>
    /\ stderr = <<>>
    /\ exitCode = <<>>
    /\ log = <<>>
    /\ saved = <<>>
    /\ written = {}
    /\ out0 = outFiles
    /\ runNo = 1
    /\ prev = <<>>

env == <<rawVariants, installed, inDirs, inFiles>>
out == <<outDirs, outFiles, written>>
streams == <<stdout, stderr, exitCode>>
hist == <<out0, runNo, prev>>

\* raise e: control leaves the try block for main's except clause
Raise(e) ==
    /\ exc' = <<e>>
    /\ pc' = "except"

(***************************************************************************)
(* main, lines 111-119: parse the arguments; an empty list returns 1.      *)
(***************************************************************************)
Main ==
    /\ pc = "main"
    /\ variants' = ParseVariants(rawVariants)
    /\ IF variants' = <<>>
       THEN /\ stderr' = Append(stderr, Line("", "No variants specified.", NoPath))
            /\ exitCode' = <<1>>
            /\ pc' = "done"
       ELSE /\ pc' = "require_dependency"
            /\ UNCHANGED <<stderr, exitCode>>
    /\ UNCHANGED <<env, out, vi, ni, si, svg_content, images, exc, stdout,
                   log, saved, hist>>

(***************************************************************************)
(* require_dependency, lines 41-56, called at line 122.                    *)
(***************************************************************************)
\* mutant: only the rasterizer is looked for at startup
DependencyErrorResvgOnly(inst) ==
    IF "resvg_py" \notin inst
    THEN <<Exception("RuntimeError",
             "Missing dependency 'resvg-py'. Install with: uv add resvg-py",
             NoPath)>>
    ELSE <<>>

DependencyError(inst) ==
    IF "resvg_py" \notin inst
    THEN <<Exception("RuntimeError",
             "Missing dependency 'resvg-py'. Install with: uv add resvg-py",
             NoPath)>>
    ELSE IF "PIL" \notin inst
    THEN <<Exception("RuntimeError",
             "Missing dependency 'pillow'. Install with: uv add pillow",
             NoPath)>>
    ELSE <<>>

RequireDependency ==
    /\ pc = "require_dependency"
    /\ log' = Append(log, Event("import", 0, 0, 0))
    /\ IF DependencyError(installed) # <<>>
       THEN /\ Raise(DependencyError(installed)[1])
            /\ UNCHANGED vi
       ELSE /\ vi' = 1          \* for variant in variants: (non-empty here)
            /\ pc' = "is_dir"
            /\ UNCHANGED exc
    /\ UNCHANGED <<env, out, variants, ni, si, svg_content, images, streams,
                   saved, hist>>

(***************************************************************************)
(* build_variant, lines 80-82: the variant folder must be a directory.     *)
(***************************************************************************)
\* mutant: the variant folder is not validated
is_dir_unchecked(p) == TRUE

is_dir(p) == p \in inDirs

IsDir ==
    /\ pc = "is_dir"
    /\ log' = Append(log, Event("is_dir", vi, 0, 0))
    /\ IF is_dir(VariantInput(variants[vi]))
       THEN /\ pc' = "mkdir"
            /\ UNCHANGED exc
       ELSE Raise(Exception("FileNotFoundError", "Variant folder not found: ",
                            VariantInput(variants[vi])))
    /\ UNCHANGED <<env, out, variants, vi, ni, si, svg_content, images,
                   streams, saved, hist>>

(***************************************************************************)
(* build_variant, lines 84-85: mkdir(parents=True, exist_ok=True); the     *)
(* operating system may refuse it.  Line 87 then starts the icon loop.     *)
(***************************************************************************)
Mkdir ==
    /\ pc = "mkdir"
    /\ log' = Append(log, Event("mkdir", vi, 0, 0))
    /\ \/ /\ outDirs' = outDirs \cup {VariantOutput(variants[vi])}
          /\ ni' = 1
          /\ pc' = "is_file"
          /\ UNCHANGED exc
       \/ /\ Raise(Exception("OSError", "mkdir: ", VariantOutput(variants[vi])))
          /\ UNCHANGED <<outDirs, ni>>
    /\ UNCHANGED <<env, outFiles, written, variants, vi, si, svg_content,
                   images, streams, saved, hist>>

(***************************************************************************)
(* build_variant, lines 88-90: the icon source must be a regular file.     *)
(***************************************************************************)
is_file(p) == p \in inFiles

IsFile ==
    /\ pc = "is_file"
    /\ log' = Append(log, Event("is_file", vi, ni, 0))
    /\ IF is_file(SvgPath(variants[vi], ICON_NAMES[ni]))
       THEN /\ pc' = "read_text"
            /\ UNCHANGED exc
       ELSE Raise(Exception("FileNotFoundError", "Missing icon source: ",
                            SvgPath(variants[vi], ICON_NAMES[ni])))
    /\ UNCHANGED <<env, out, variants, vi, ni, si, svg_content, images,
                   streams, saved, hist>>

(***************************************************************************)
(* build_variant, lines 92-96: read the source, start an empty list of     *)
(* images and the loop over ICON_SIZES.  The read may fail.                *)
(***************************************************************************)
\* mutant: the list of images is not started afresh for each icon
NewImagesKept == images

NewImages == <<>>

ReadText ==
    /\ pc = "read_text"
    /\ log' = Append(log, Event("read_text", vi, ni, 0))
    /\ \/ /\ svg_content' = <<FileText(SvgPath(variants[vi], ICON_NAMES[ni]))>>
          /\ images' = NewImages
          /\ si' = 1
          /\ pc' = "render"
          /\ UNCHANGED exc
       \/ /\ Raise(Exception("OSError", "read_text: ",
                             SvgPath(variants[vi], ICON_NAMES[ni])))
          /\ UNCHANGED <<svg_content, images, si>>
    /\ UNCHANGED <<env, out, variants, vi, ni, streams, saved, hist>>

(***************************************************************************)
(* build_variant, lines 96-98: one iteration of the loop over ICON_SIZES.  *)
(* The rasterizer may fail.                                                *)
(***************************************************************************)
\* mutant: the first render is reused for every size
AfterRenderOnce(s) == "save"

AfterRender(s) == IF s < Len(ICON_SIZES) THEN "render" ELSE "save"

Render ==
    /\ pc = "render"
    /\ log' = Append(log, Event("render", vi, ni, si))
    /\ \/ /\ images' = Append(images,
                 render_svg_at_size(svg_content[1], ICON_SIZES[si][1],
                                    ICON_SIZES[si][2]))
          /\ pc' = AfterRender(si)
          /\ si' = IF pc' = "render" THEN si + 1 ELSE si
          /\ UNCHANGED exc
       \/ /\ Raise(Exception("RenderError", "svg_to_bytes: ", NoPath))
          /\ UNCHANGED <<images, si>>
    /\ UNCHANGED <<env, out, variants, vi, ni, svg_content, streams, saved,
                   hist>>

(***************************************************************************)
(* build_variant, lines 101-107: images[0].save(...), then the next icon,  *)
(* the next variant (main, line 123) or the end of the loops.  A failed    *)
(* save leaves the destination untouched or truncated.                     *)
(***************************************************************************)
Save ==
    /\ pc = "save"
    /\ log' = Append(log, Event("save", vi, ni, 0))
    /\ saved' = Append(saved, [v |-> vi, n |-> ni, images |-> images])
    /\ LET ico_path == IcoPath(variants[vi], ICON_NAMES[ni])
       IN  \/ /\ outFiles' = WriteFile(outFiles, ico_path,
                     IcoFile(IcoFrames(images[1], ICON_SIZES, Tail(images))))
              /\ written' = written \cup {[v |-> vi, n |-> ni]}
              /\ IF ni < Len(ICON_NAMES)
                 THEN /\ ni' = ni + 1
                      /\ pc' = "is_file"
                      /\ UNCHANGED vi
                 ELSE IF vi < Len(variants)
                 THEN /\ vi' = vi + 1
                      /\ pc' = "is_dir"
                      /\ UNCHANGED ni
                 ELSE /\ pc' = "print"
                      /\ UNCHANGED <<vi, ni>>
              /\ UNCHANGED exc
           \/ /\ Raise(Exception("OSError", "save: ", ico_path))
              /\ \/ UNCHANGED outFiles
                 \/ outFiles' = WriteFile(outFiles, ico_path, PartialFile)
              /\ UNCHANGED <<written, vi, ni>>
    /\ UNCHANGED <<env, outDirs, variants, si, svg_content, images, streams,
                   hist>>

\* mutant: the try block sits inside the loop over variants, so a failed
\* variant is reported and the next one is built
ExceptNextVariant ==
    /\ pc = "except"
    /\ stderr' = Append(stderr, Line("Error: ", exc[1].text, exc[1].path))
    /\ IF 0 < vi /\ vi < Len(variants)
       THEN /\ vi' = vi + 1
            /\ pc' = "is_dir"
            /\ UNCHANGED exitCode
       ELSE /\ exitCode' = <<1>>
            /\ pc' = "done"
            /\ UNCHANGED vi
    /\ UNCHANGED <<env, out, variants, ni, si, svg_content, images, exc,
                   stdout, log, saved, hist>>

\* mutant: the try block sits inside the loop over icons, so a failed icon
\* is reported and the next one is built
ExceptNextIcon ==
    /\ pc = "except"
    /\ stderr' = Append(stderr, Line("Error: ", exc[1].text, exc[1].path))
    /\ IF 0 < ni /\ ni < Len(ICON_NAMES)
       THEN /\ ni' = ni + 1
            /\ pc' = "is_file"
            /\ UNCHANGED exitCode
       ELSE /\ exitCode' = <<1>>
            /\ pc' = "done"
            /\ UNCHANGED ni
    /\ UNCHANGED <<env, out, variants, vi, si, svg_content, images, exc,
                   stdout, log, saved, hist>>

\* mutant: the except clause lacks its return, so main falls through to
\* the success message
ExceptNoReturn ==
    /\ pc = "except"
    /\ stderr' = Append(stderr, Line("Error: ", exc[1].text, exc[1].path))
    /\ pc' = "print"
    /\ UNCHANGED <<env, out, variants, vi, ni, si, svg_content, images, exc,
                   stdout, exitCode, log, saved, hist>>

(***************************************************************************)
(* main, lines 131-133: the except clause.                                 *)
(***************************************************************************)
Except ==
    /\ pc = "except"
    /\ stderr' = Append(stderr, Line("Error: ", exc[1].text, exc[1].path))
    /\ exitCode' = <<1>>
    /\ pc' = "done"
    /\ UNCHANGED <<env, out, variants, vi, ni, si, svg_content, images, exc,
                   stdout, log, saved, hist>>

(***************************************************************************)
(* main, lines 135-136: the success message and return 0.                  *)
(***************************************************************************)
Finish ==
    /\ pc = "print"
    /\ stdout' = Append(stdout,
                    Line("", "Generated thumbbar icons in: ",
                         Path("output", <<>>, <<>>)))
    /\ exitCode' = <<0>>
    /\ pc' = "done"
    /\ UNCHANGED <<env, out, variants, vi, ni, si, svg_content, images, exc,
                   stderr, log, saved, hist>>

(***************************************************************************)
(* After a successful build the script is run again (line 140) with the    *)
(* same arguments on the same input tree, over the output tree it left.    *)
(***************************************************************************)
Rerun ==
    /\ pc = "done"
    /\ exitCode = <<0>>
    /\ runNo < MaxRuns
    /\ runNo' = runNo + 1
    /\ prev' = <<[exit |-> exitCode[1], tree |-> outFiles]>>
    /\ out0' = outFiles
    /\ pc' = "main"
    /\ variants' = <<>>
    /\ vi' = 0
    /\ ni' = 0
    /\ si' = 0
    /\ svg_content' = <<>>
    /\ images' = <<>>
    /\ exc' = <<>>
    /\ stdout' = <<>>
    /\ stderr' = <<>>
    /\ exitCode' = <<>>
    /\ log' = <<>>
    /\ saved' = <<>>
    /\ written' = {}
    /\ UNCHANGED <<env, outDirs, outFiles>>

Next ==
    \/ Main
    \/ RequireDependency
    \/ IsDir
    \/ Mkdir
    \/ IsFile
    \/ ReadText
    \/ Render
    \/ Save
    \/ Except
    \/ Finish
    \/ Rerun

Spec == Init /\ [][Next]_vars

(***************************************************************************)
(* Vocabulary of the properties.                                           *)
(***************************************************************************)
BothInstalled == installed = {"resvg_py", "PIL"}

\* the run was stopped by a failed mkdir, read, render or save
EnvFailure == exc # <<>> /\ exc[1].type \in {"OSError", "RenderError"}

\* the run was stopped by a missing source or a failed render
SourceFailure ==
    exc # <<>> /\ exc[1].type \in {"FileNotFoundError", "RenderError"}

Last(s) == s[Len(s)]
IsPrefix(a, b) == Len(a) <= Len(b) /\ a = SubSeq(b, 1, Len(a))

\* a position of the two outer loops: entry v of variants, icon n
Positions(vs) ==
    {[v |-> i, n |-> k] : i \in 1..Len(vs), k \in 1..Len(ICON_NAMES)}
PosPath(w) == IcoPath(variants[w.v], ICON_NAMES[w.n])
Before(a, b) == a.v < b.v \/ (a.v = b.v /\ a.n < b.n)

\* <output>/<variant>/<name>.ico for every requested variant and icon name
RequestedIcoPaths == {PosPath(w) : w \in Positions(variants)}

FileAt(files, p) == IF p \in DOMAIN files THEN <<files[p]>> ELSE <<>>
FrameSizes(file) == [i \in 1..Len(file.frames) |-> file.frames[i].size]

TreeComplete ==
    \A i \in 1..Len(variants) :
        /\ VariantInput(variants[i]) \in inDirs
        /\ \A k \in 1..Len(ICON_NAMES) :
               SvgPath(variants[i], ICON_NAMES[k]) \in inFiles

\* the input paths in processing order: each variant's folder, then its icons
InputOrder ==
    [j \in 1..(Len(variants) * (Len(ICON_NAMES) + 1)) |->
        LET i == ((j - 1) \div (Len(ICON_NAMES) + 1)) + 1
            r == (j - 1) % (Len(ICON_NAMES) + 1)
        IN  [v |-> i, n |-> r,
             path |-> IF r = 0 THEN VariantInput(variants[i])
                      ELSE SvgPath(variants[i], ICON_NAMES[r])]]
MissingInputs ==
    {j \in DOMAIN InputOrder : InputOrder[j].path \notin inDirs \cup inFiles}
FirstMissing ==
    InputOrder[CHOOSE j \in MissingInputs : \A k \in MissingInputs : j <= k]

\* the I/O of a complete run over n variants, in the order of the loops
RenderSchedule(i, k) ==
    [s \in 1..Len(ICON_SIZES) |-> Event("render", i, k, s)]
IconSchedule(i, k) ==
    <<Event("is_file", i, k, 0), Event("read_text", i, k, 0)>>
    \o RenderSchedule(i, k) \o <<Event("save", i, k, 0)>>
RECURSIVE IconsSchedule(_, _)
IconsSchedule(i, k) ==
    IF k > Len(ICON_NAMES) THEN <<>>
    ELSE IconSchedule(i, k) \o IconsSchedule(i, k + 1)
RECURSIVE VariantsSchedule(_, _)
VariantsSchedule(i, n) ==
    IF i > n THEN <<>>
    ELSE <<Event("is_dir", i, 0, 0), Event("mkdir", i, 0, 0)>>
         \o IconsSchedule(i, 1) \o VariantsSchedule(i + 1, n)
Schedule(n) == <<Event("import", 0, 0, 0)>> \o VariantsSchedule(1, n)

\* the images of one icon and the file their save produces
ExpectedImages(p) ==
    [s \in 1..Len(ICON_SIZES) |->
        render_svg_at_size(FileText(p), ICON_SIZES[s][1], ICON_SIZES[s][2])]
ExpectedIco(v, name) ==
    LET ims == ExpectedImages(SvgPath(v, name))
    IN  IcoFile(IcoFrames(ims[1], ICON_SIZES, Tail(ims)))

(***************************************************************************)
(* C1: with a non-empty variant list, every requested folder and source    *)
(* present, both dependencies available and no render or write failure,    *)
(* the run ends with exit code 0, has written exactly the files            *)
(* <output>/<variant>/<name>.ico of the requested pairs and no other, and  *)
(* each holds the 4 frames (16,16), (20,20), (24,24), (32,32) in order.    *)
(***************************************************************************)
C1_EveryIconFileHoldsTheFourSizes ==
    (pc = "done" /\ variants # <<>> /\ TreeComplete /\ BothInstalled
       /\ ~EnvFailure)
    => /\ exitCode = <<0>>
       /\ written = Positions(variants)
       /\ DOMAIN outFiles = DOMAIN out0 \cup RequestedIcoPaths
       /\ \A p \in DOMAIN out0 \ RequestedIcoPaths : outFiles[p] = out0[p]
       /\ \A p \in RequestedIcoPaths :
              /\ outFiles[p].format = "ICO"
              /\ FrameSizes(outFiles[p]) = ICON_SIZES

\* C1, what the run does leave: exit code 0 and exactly the requested files,
\* each holding the one frame of the image save() was called on
C1_FilesWrittenWithTheBaseSizeOnly ==
    (pc = "done" /\ variants # <<>> /\ TreeComplete /\ BothInstalled
       /\ ~EnvFailure)
    => /\ exitCode = <<0>>
       /\ written = Positions(variants)
       /\ DOMAIN outFiles = DOMAIN out0 \cup RequestedIcoPaths
       /\ \A p \in RequestedIcoPaths :
              FrameSizes(outFiles[p]) = <<ICON_SIZES[1]>>

(***************************************************************************)
(* C2: in every state of every run, each bundle handed to the packer for   *)
(* (variant, icon) holds exactly one frame per entry of ICON_SIZES, in     *)
(* that order, each rendered from the text of <input>/<variant>/<icon>.svg *)
(* read in that iteration; no frame of another icon or variant is in it.   *)
(***************************************************************************)
BundleOf(ims, i, k) ==
    /\ Len(ims) = Len(ICON_SIZES)
    /\ \A s \in 1..Len(ims) :
           /\ ims[s].size = ICON_SIZES[s]
           /\ ims[s].src = FileText(SvgPath(variants[i], ICON_NAMES[k]))
           /\ <<ims[s].src>> = svg_content \/ <<i, k>> # <<vi, ni>>

C2_BundleFramesFromOneSource ==
    /\ \A j \in 1..Len(saved) : BundleOf(saved[j].images, saved[j].v, saved[j].n)
    /\ pc = "save" => BundleOf(images, vi, ni)

C2_Witness ==
    /\ pc = "done"
    /\ exitCode = <<1>>
    /\ \E a, b \in 1..Len(saved) :
           /\ saved[a].v # saved[b].v
           /\ variants[saved[a].v] # variants[saved[b].v]

(***************************************************************************)
(* C3 as stated: if a source is missing or a render fails, the run ends    *)
(* having written no output file at all.                                   *)
(***************************************************************************)
C3_NothingWrittenInAFailedRun ==
    (pc = "done" /\ SourceFailure) => written = {}

(***************************************************************************)
(* C3 amended: if a source is missing or a render fails, the run aborts    *)
(* before the file of the icon being processed is written: the files       *)
(* written in the run are exactly those of the icons completed before the  *)
(* failing one, they stay in place, and the failing icon's own file is as  *)
(* it was before the run.                                                  *)
(***************************************************************************)
C3_NothingWrittenFromTheFailedIconOn ==
    (pc \in {"except", "done"} /\ SourceFailure)
    => LET f == Last(log)
       IN  /\ written = {w \in Positions(variants) : Before(w, f)}
           /\ \A w \in written : outFiles[PosPath(w)] =
                  ExpectedIco(variants[w.v], ICON_NAMES[w.n])
           /\ (f.n > 0 /\ PosPath(f) \notin {PosPath(w) : w \in written})
              => FileAt(outFiles, PosPath(f)) = FileAt(out0, PosPath(f))

C3_Witness ==
    /\ pc = "done"
    /\ exc # <<>>
    /\ exc[1].type = "RenderError"
    /\ Last(log).v = 2
    /\ Cardinality(written) > Len(ICON_NAMES)

(***************************************************************************)
(* C4: abort on first failure: a step that fails takes the run straight to *)
(* the except clause, which ends it with exit code 1; once a step has      *)
(* failed no further check, read, render, mkdir or write is performed in   *)
(* the run.                                                                *)
(***************************************************************************)
C4_AbortOnFirstFailure ==
    [][runNo' = runNo =>
         /\ (exc = <<>> /\ exc' # <<>>) => pc' = "except"
         /\ exc # <<>> =>
              /\ pc = "except" => (pc' = "done" /\ exitCode' = <<1>>)
              /\ log' = log
              /\ saved' = saved
              /\ written' = written
              /\ outFiles' = outFiles
              /\ outDirs' = outDirs
              /\ exc' = exc]_vars

C4_Witness ==
    /\ pc = "done"
    /\ exitCode = <<1>>
    /\ exc # <<>>
    /\ exc[1].type = "OSError"
    /\ Last(log) = Event("read_text", 1, 2, 0)
    /\ Len(variants) > 1

(***************************************************************************)
(* What C5 concludes when the first missing input path, in processing      *)
(* order, is the folder or a source of entry m.v of the variant list.      *)
(***************************************************************************)
StoppedAtMissing(m) ==
    /\ exitCode = <<1>>
    /\ stderr = <<Line("Error: ",
                       IF m.n = 0 THEN "Variant folder not found: "
                                  ELSE "Missing icon source: ",
                       m.path)>>
    /\ \A w \in Positions(variants) :
           w.v < m.v => /\ w \in written
                        /\ outFiles[PosPath(w)] =
                               ExpectedIco(variants[w.v], ICON_NAMES[w.n])
    /\ \A w \in written : Before(w, m)

OnlySeparators(raw) == \A i \in 1..Len(raw) : raw[i] \in {",", " "}

C6_EmptyVariantListStopsAtOnce ==
    (OnlySeparators(rawVariants) /\ pc # "main")
    => /\ pc = "done"
       /\ exitCode = <<1>>
       /\ stderr = <<Line("", "No variants specified.", NoPath)>>
       /\ log = <<>>
       /\ saved = <<>>
       /\ written = {}
       /\ outFiles = out0
       /\ outDirs = {VariantOutput(p.variant) : p \in DOMAIN out0}

C6_Witness ==
    /\ pc = "done"
    /\ rawVariants = <<",", " ">>
    /\ exitCode = <<1>>

(***************************************************************************)
(* C7: every run ends with exactly one exit code and exactly one printed   *)
(* message: a failed run prints one line on the error stream, nothing on   *)
(* standard output, and returns 1; the success message naming the output   *)
(* root is printed, with exit code 0, exactly when every requested variant *)
(* was processed completely without error.                                 *)
(***************************************************************************)
SuccessLine ==
    Line("", "Generated thumbbar icons in: ", Path("output", <<>>, <<>>))

FullyProcessed ==
    variants # <<>> /\ exc = <<>> /\ written = Positions(variants)

C7_OneMessageOneExitCode ==
    /\ pc # "done" => (exitCode = <<>> /\ stdout = <<>> /\ stderr = <<>>)
    /\ pc = "done" =>
         /\ exitCode \in {<<0>>, <<1>>}
         /\ Len(stdout) + Len(stderr) = 1
         /\ exitCode = <<1>> <=> (Len(stderr) = 1 /\ stdout = <<>>)
         /\ exitCode = <<0>> <=> stdout = <<SuccessLine>>
         /\ exitCode = <<0>> <=> FullyProcessed
         /\ (variants = <<>> \/ exc # <<>>) => exitCode = <<1>>

C7_Witness ==
    /\ pc = "done"
    /\ exitCode = <<1>>
    /\ exc # <<>>
    /\ Last(log).op = "save"
    /\ Len(stderr) = 1
    /\ written # {}

(***************************************************************************)
(* C8: if the rasterizer or the image library is unavailable and the       *)
(* variant list is not empty, the run ends with exit code 1 without having *)
(* checked, read, created or written any path under the input or output    *)
(* root.                                                                   *)
(***************************************************************************)
C8_MissingDependencyBeforeAnyFileIO ==
    (~BothInstalled /\ ~OnlySeparators(rawVariants))
    => /\ \A j \in 1..Len(log) : log[j].op = "import"
       /\ saved = <<>>
       /\ written = {}
       /\ outFiles = out0
       /\ outDirs = {VariantOutput(p.variant) : p \in DOMAIN out0}
       /\ pc = "done" =>
            /\ exitCode = <<1>>
            /\ Len(stderr) = 1
            /\ stderr[1].prefix = "Error: "
            /\ exc # <<>>
            /\ exc[1].type = "RuntimeError"

C8_Witness ==
    /\ pc = "done"
    /\ installed = {"resvg_py"}
    /\ Len(variants) > 1
    /\ exitCode = <<1>>
    /\ inDirs # {}

(***************************************************************************)
(* C9 as stated: the output tree a successful run leaves does not depend   *)
(* on the output files that existed before it: it is the tree the run      *)
(* leaves in an empty output root.                                         *)
(***************************************************************************)
C9_FinalTreeIgnoresOldFiles ==
    (pc = "done" /\ exitCode = <<0>>)
    => outFiles = [p \in RequestedIcoPaths |->
                      ExpectedIco(p.variant, p.file[1])]

(***************************************************************************)
(* C9 amended: a successful run overwrites every file                      *)
(* <output>/<variant>/<name>.ico of the requested variants, whatever was   *)
(* there, with content fixed by the source alone, and leaves every other   *)
(* output file as it was; a second successful run on unchanged inputs      *)
(* leaves the tree the first one left.                                     *)
(***************************************************************************)
C9_RerunOverwritesWithTheSameFiles ==
    (pc = "done" /\ exitCode = <<0>>)
    => /\ written = Positions(variants)
       /\ DOMAIN outFiles = DOMAIN out0 \cup RequestedIcoPaths
       /\ \A p \in RequestedIcoPaths :
              outFiles[p] = ExpectedIco(p.variant, p.file[1])
       /\ \A p \in DOMAIN out0 \ RequestedIcoPaths : outFiles[p] = out0[p]
       /\ (prev # <<>> /\ prev[1].exit = 0) => outFiles = prev[1].tree

C9_Witness ==
    /\ pc = "done"
    /\ exitCode = <<0>>
    /\ runNo = 2
    /\ prev[1].exit = 0
    /\ IcoPath(OtherVariant, "play") \in DOMAIN outFiles
    /\ Len(variants) > 1

(***************************************************************************)
(* C10: the I/O of a run is strictly sequential in the order of the loops: *)
(* variants in command-line order, icons in ICON_NAMES order, sizes in     *)
(* ICON_SIZES order, then the save; per variant entry and icon one read,   *)
(* one render per size, all renders before the save, the output folder     *)
(* made before the first save into it, and a save done before the next     *)
(* icon's source is checked.                                               *)
(***************************************************************************)
C10_StepsFollowTheLoopOrder ==
    /\ IsPrefix(log, Schedule(Len(variants)))
    /\ exitCode = <<0>> => log = Schedule(Len(variants))
    /\ \A j \in 1..Len(saved) :
           /\ Len(saved[j].images) = Len(ICON_SIZES)
           /\ VariantOutput(variants[saved[j].v]) \in outDirs

C10_Witness ==
    /\ pc = "done"
    /\ exitCode = <<0>>
    /\ Len(variants) = 3
    /\ Len(log) = 1 + 3 * (2 + Len(ICON_NAMES) * (3 + Len(ICON_SIZES)))

====
